---- MODULE Spec2Model ----
(***************************************************************************)
(* AI story generation and replenishment of the storytelling backend:      *)
(* generateCategoryStories (routes/ai.js), the route handlers that call    *)
(* it, and the Story collection they share.  Every await of the code is a  *)
(* separate step, so concurrent requests interleave at the store and at    *)
(* the providers exactly where the code yields.                            *)
(***************************************************************************)
EXTENDS Integers, Sequences, FiniteSets, TLC

\* ------------------------------------------------------------- bounds
\* documents the Story collection may ever hold (ids 1..MaxStories)
MaxStories == 3
\* largest targetTotal a direct caller passes
MaxTarget == 2
\* store operations that fail in one behaviour
MaxFailures == 1
\* lines of a provider text, and elements of the array in it
MaxLines == 2
\* separators in one line of a provider text
MaxSeps == 2
\* largest count the parser is asked for
MaxCount == 2
\* an object's duration is a number from -MaxDuration to MaxDuration
MaxDuration == 21
\* a call's childAge is a number from -MaxAge to MaxAge
MaxAge == 15

\* request slots: each serves one request, the two of them in any interleaving
Procs == {1, 2}

\* ---------------------------------------------------------- constants
\* parseInt(process.env.TARGET_PER_CATEGORY || '1', 10)
DEFAULT_TARGET_PER_CATEGORY == 1

NULL == "null"

\* the registry: theme and category of each collection
STORY_CATEGORIES ==
  [k \in {"mom-stories", "grandma-stories", "now-stories", "learn-stories"} |->
     CASE k = "mom-stories"     -> [theme |-> "family",    category |-> "audio"]
       [] k = "grandma-stories" -> [theme |-> "family",    category |-> "audio"]
       [] k = "now-stories"     -> [theme |-> "adventure", category |-> "interactive"]
       [] k = "learn-stories"   -> [theme |-> "learning",  category |-> "educational"]]

CategoryKeys == DOMAIN STORY_CATEGORIES

\* storySchema: the enums a saved document is validated against
ThemeEnum == {"kindness", "courage", "friendship", "learning", "creativity",
              "nature", "family", "adventure", "science", "ai_generated"}
CategoryEnum == {"interactive", "audio", "video", "bedtime", "educational"}
CollectionEnum == CategoryKeys \cup {NULL}

\* the keys requests are made with: a registered one and one that is not
RequestKeys == {"learn-stories", "space-stories"}

Max(a, b) == IF a > b THEN a ELSE b
Min(a, b) == IF a < b THEN a ELSE b

VARIABLES
  stories,   \* the Story collection: a set of documents
  nextId,    \* the next _id the store assigns
  env,       \* process.env: which provider credentials are configured
  req,       \* per slot: the request it serves and where its handler stands
  failures,  \* store operations that have failed so far
  call       \* a parser or gateway call looked at on its own: arguments, result

vars == <<stories, nextId, env, req, failures, call>>

\* ------------------------------------------------------------ the store
\* the filter without isAIGenerated: true
ActiveAnyKind(key) ==
  {s \in stories : s.generatedForCollection = key /\ s.isActive}

\* Story.countDocuments / Story.find({generatedForCollection, isActive: true,
\* isAIGenerated: true})
ActiveAI(key) ==
  {s \in stories : s.generatedForCollection = key /\ s.isActive /\ s.isAIGenerated}

CountDocuments(key) == Cardinality(ActiveAI(key))

\* .sort({createdAt: -1}).limit(n): the n most recently created of a result set
\* (ids grow with creation time; limit(0) is no limit)
RECURSIVE Newest(_, _)
Newest(S, n) ==
  IF S = {} \/ n = 0 THEN {}
  ELSE LET top == CHOOSE s \in S : \A t \in S : t.id <= s.id
       IN {top} \cup Newest(S \ {top}, n - 1)

SortLimit(S, n) == IF n = 0 THEN S ELSE Newest(S, n)

\* a duplicate lookup that finds nothing
FindDuplicateNone(title, key) == {}

\* Story.findOne({title, generatedForCollection, isActive: true})
FindDuplicate(title, key) ==
  {s \in stories : s.title = title /\ s.generatedForCollection = key /\ s.isActive}

\* Story.findOne({$or: [{title}, {content}], audioUrl: {$exists: true, $ne: null}})
FindWithAudio(title, content) ==
  {s \in stories : (s.title = title \/ s.content = content) /\ s.audioUrl # NULL}

\* a document with this _id is in the collection
InStore(id) == \E s \in stories : s.id = id

\* schema validation of a document about to be saved
Validates(d) ==
  /\ d.title # ""
  /\ d.description # ""
  /\ d.content # ""
  /\ d.theme \in ThemeEnum
  /\ d.category \in CategoryEnum
  /\ d.generatedForCollection \in CollectionEnum

\* the document the store keeps of validated data; by is the slot whose
\* generateCategoryStories call created it (0: anything else)
Document(id, d) ==
  [id |-> id, title |-> d.title, content |-> d.content,
   theme |-> d.theme, category |-> d.category,
   isAIGenerated |-> d.isAIGenerated, isActive |-> d.isActive,
   generatedForCollection |-> d.generatedForCollection,
   audioUrl |-> d.audioUrl, audioPending |-> d.audioPending,
   totalPlays |-> 0, totalCompletions |-> 0,
   by |-> d.by]

\* ------------------------------------------------ provider text, parsing
\* What the text provider returns: "" (kind "empty", also every failure of the
\* gateway), a text whose [ .. ] span parses as the array arr (kind "json"), or
\* a text with no parseable span (kind "text").  lines are the text's non-empty
\* lines as parseGeneratedText sees them: a line either splits into at least
\* three segments (parts = TRUE) or is skipped.
Obj(t, d, c) == [title |-> t, description |-> d, content |-> c]
Line(t, d, c) == [parts |-> TRUE, title |-> t, description |-> d, content |-> c]
Noise == [parts |-> FALSE, title |-> "", description |-> "", content |-> ""]

Fox == Obj("Brave Fox", "A tale of courage", "fox-body")
Owl == Obj("Kind Owl", "A tale of kindness", "owl-body")

ProviderTexts ==
  { [kind |-> "empty", arr |-> <<>>, lines |-> <<>>],
    [kind |-> "json",  arr |-> <<Fox>>, lines |-> <<>>],
    [kind |-> "json",  arr |-> <<Fox, Owl>>, lines |-> <<>>],
    [kind |-> "json",  arr |-> <<Fox, Fox>>, lines |-> <<>>],
    [kind |-> "json",  arr |-> <<Obj("", "no title", "body"),
                                 Obj("Kind Owl", "", "owl-body")>>, lines |-> <<>>],
    [kind |-> "text",  arr |-> <<>>,
       lines |-> <<Noise, Line("Kind Owl", "A tale of kindness", "owl-body")>>],
    [kind |-> "text",  arr |-> <<>>, lines |-> <<Noise>>] }

EmptyText == [kind |-> "empty", arr |-> <<>>, lines |-> <<>>]

\* the structured tier without its break at need
RECURSIVE ParseStructuredAll(_, _, _)
ParseStructuredAll(arr, acc, need) ==
  IF arr = <<>> THEN acc
  ELSE LET obj == Head(arr)
       IN IF obj.title = "" \/ obj.content = ""
          THEN ParseStructuredAll(Tail(arr), acc, need)
          ELSE ParseStructuredAll(Tail(arr), Append(acc, obj), need)

\* the structured tier: objects with a title and a content, until need are taken
RECURSIVE ParseStructured(_, _, _)
ParseStructured(arr, acc, need) ==
  IF arr = <<>> \/ Len(acc) >= need THEN acc
  ELSE LET obj == Head(arr)
       IN IF obj.title = "" \/ obj.content = ""
          THEN ParseStructured(Tail(arr), acc, need)
          ELSE ParseStructured(Tail(arr), Append(acc, obj), need)

\* parseGeneratedText: one candidate per line of at least three segments
RECURSIVE ParseLines(_, _, _)
ParseLines(lines, acc, count) ==
  IF lines = <<>> \/ Len(acc) >= count THEN acc
  ELSE LET l == Head(lines)
       IN IF ~l.parts
          THEN ParseLines(Tail(lines), acc, count)
          ELSE ParseLines(Tail(lines),
                          Append(acc, Obj(l.title, l.description, l.content)), count)

parseGeneratedText(text, count) ==
  LET parsed == ParseLines(text.lines, <<>>, count)
  IN SubSeq(parsed, 1, Min(count, Len(parsed)))

\* the two tiers in the other order: the lines first, the array when no line
\* gave a candidate
AggregatedParsedLinesFirst(aiText, need) ==
  IF aiText.kind = "empty" THEN <<>>
  ELSE LET legacy == parseGeneratedText(aiText, need)
       IN IF legacy # <<>> THEN SubSeq(legacy, 1, Min(need, Len(legacy)))
          ELSE IF aiText.kind = "json"
               THEN ParseStructured(aiText.arr, <<>>, need)
               ELSE <<>>

\* aggregatedParsed of generateCategoryStories
AggregatedParsed(aiText, need) ==
  IF aiText.kind = "empty" THEN <<>>
  ELSE LET structured == IF aiText.kind = "json"
                         THEN ParseStructured(aiText.arr, <<>>, need)
                         ELSE <<>>
       IN IF structured # <<>> THEN structured
          ELSE LET legacy == parseGeneratedText(aiText, need)
               IN SubSeq(legacy, 1, Min(need, Len(legacy)))

\* ---------------------------------------------- the parser on any text
\* A provider text as the parser sees it.  span says what lies between its first
\* '[' and last ']': nothing ("none"), something JSON.parse rejects ("broken"),
\* a JSON value that is no array ("object"), or the array arr ("array").  Every
\* non-empty line of the text (those of the span included) is the sequence of
\* separators in it, the words between them left out.
LineTokens == {":", "|"}

\* the separators parseGeneratedText tries, in its order: ' - ', ' — ', ' – ',
\* ':', ' | '
Separators == <<"-", "em", "en", ":", "|">>

\* line.split(sep): the segments between the occurrences of sep
RECURSIVE SplitOn(_, _, _, _)
SplitOn(line, sep, cur, acc) ==
  IF line = <<>> THEN Append(acc, cur)
  ELSE IF Head(line) = sep
       THEN SplitOn(Tail(line), sep, <<>>, Append(acc, cur))
       ELSE SplitOn(Tail(line), sep, Append(cur, Head(line)), acc)

\* parts: the first split of at least three segments, else the last one tried
RECURSIVE Parts(_, _)
Parts(line, k) ==
  LET ps == SplitOn(line, Separators[k], <<>>, <<>>)
  IN IF Len(ps) >= 3 \/ k = Len(Separators) THEN ps ELSE Parts(line, k + 1)

\* parts.slice(2).join(' - ')
RECURSIVE JoinParts(_)
JoinParts(ps) ==
  IF ps = <<>> THEN <<>>
  ELSE IF Len(ps) = 1 THEN ps[1]
  ELSE ps[1] \o <<"-">> \o JoinParts(Tail(ps))

\* one line as the loop of parseGeneratedText takes it: skipped, or a candidate
\* of its first, its second and its remaining segments
ToLine(line) ==
  LET ps == Parts(line, 1)
  IN IF Len(ps) < 3 THEN Noise
     ELSE Line(ps[1], ps[2], JoinParts(SubSeq(ps, 3, Len(ps))))

\* aiText of a text: '' is the text with no span and no line
AiText(text) ==
  [kind  |-> IF text.span = "none" /\ text.lines = <<>> THEN "empty"
             ELSE IF text.span = "array" THEN "json" ELSE "text",
   arr   |-> text.arr,
   lines |-> [k \in 1..Len(text.lines) |-> ToLine(text.lines[k])]]

\* JSON.parse(jsonStr) throws
JsonParseThrows(text) == text.span = "broken"

\* a try whose catch lets the exception through
Uncaught(threw) == threw

\* try { .. } catch (e) { /* fall back, or log */ }: nothing leaves the block
Caught(threw) == FALSE

\* ------------------------------------------------ a candidate's numbers
\* what obj.duration is: absent, a number, or a string that starts with no digit
Missing == [t |-> "undefined", n |-> 0]
Number(n) == [t |-> "number", n |-> n]
Word == [t |-> "word", n |-> 0]

DurationValues == {Missing, Word} \cup {Number(n) : n \in (0 - MaxDuration)..MaxDuration}

\* NaN, and the numbers that are not
NaN == [nan |-> TRUE, n |-> 0]
Whole(n) == [nan |-> FALSE, n |-> n]

\* parseInt(v, 10)
parseInt(v) == IF v.t = "number" THEN Whole(v.n) ELSE NaN

\* Math.min(20, Math.max(5, parseInt(obj.duration || 8, 10) || 8)): undefined
\* and 0 give way to 8 at the first ||, NaN and 0 at the second
StructuredDuration(d) ==
  LET v == IF d.t = "undefined" \/ (d.t = "number" /\ d.n = 0) THEN Number(8) ELSE d
      n == parseInt(v)
      m == IF n.nan \/ n.n = 0 THEN 8 ELSE n.n
  IN Min(20, Max(5, m))

\* an age range that follows childAge without the clamps
AgeRangeUnclamped(childAge) == [min |-> childAge - 2, max |-> childAge + 2]

\* ageRange: { min: Math.max(2, childAge - 2), max: Math.min(12, childAge + 2) }
AgeRange(childAge) ==
  [min |-> Max(2, childAge - 2), max |-> Min(12, childAge + 2)]

\* ------------------------------------------------- the provider gateway
\* JavaScript values a response may carry where the text is expected
Undefined == [t |-> "undefined", v |-> ""]
Str(v) == [t |-> "string", v |-> v]
ObjectValue == [t |-> "object", v |-> ""]
Zero == [t |-> "number", v |-> "0"]
Five == [t |-> "number", v |-> "5"]

JsValues == {Undefined, Str(""), Str("a story"), ObjectValue, Zero, Five}

\* x || ..: the value counts as true
Truthy(x) == x \notin {Undefined, Str(""), Zero}

\* what axios.post to the text provider ends in: a rejection (transport error,
\* timeout, status outside 2xx), or a response: without data, with no choice,
\* with a choice without message, or with a message whose content is any value
HttpOutcomes ==
  {[kind |-> "error", content |-> Undefined],
   [kind |-> "nodata", content |-> Undefined],
   [kind |-> "nochoice", content |-> Undefined],
   [kind |-> "nomessage", content |-> Undefined]}
    \cup {[kind |-> "message", content |-> v] : v \in JsValues}

\* generateWithOpenAI: '' without the key, '' when the request rejects (caught
\* and logged), else res.data?.choices?.[0]?.message?.content || ''
generateWithOpenAI(http) ==
  IF ~env.OPENAI_API_KEY THEN Str("")
  ELSE IF http.kind = "error" THEN Str("")
  ELSE IF Truthy(http.content) THEN http.content ELSE Str("")

\* what the voices request ends in: a rejection, no usable list, a first voice
\* without an id, a first voice with one
VoiceLists == {"error", "none", "noId", "id"}

\* textToElevenlabsAudio for one text: null without the key; with a configured
\* voice the synthesis and the file write, whose failure is caught and leads on
\* to the first listed voice; every failure there is caught and returns null
textToElevenlabsAudio(c) ==
  IF ~env.ELEVENLABS_API_KEY THEN NULL
  ELSE IF c.voice /\ c.tts1 /\ c.save1 THEN "audio-url"
  ELSE IF c.voices \in {"error", "none", "noId"} THEN NULL
  ELSE IF c.tts2 /\ c.save2 THEN "audio-url"
  ELSE NULL

\* process.env.ELEVENLABS_VOICE as a call finds it: the voice of the
\* configuration (or of an earlier call), or none
EnvVoice(c) == IF c.voice THEN "configured-voice" ELSE NULL

\* process.env.ELEVENLABS_VOICE as the call leaves it: the id of the first listed
\* voice once the synthesis with that voice succeeded (before the audio file is
\* written), whatever it was before
EnvVoiceAfter(c) ==
  IF ~env.ELEVENLABS_API_KEY THEN EnvVoice(c)
  ELSE IF c.voice /\ c.tts1 /\ c.save1 THEN EnvVoice(c)
  ELSE IF c.voices \in {"error", "none", "noId"} THEN EnvVoice(c)
  ELSE IF c.tts2 THEN "listed-voice"
  ELSE EnvVoice(c)

\* ------------------------------------------------------ request slots
\* A slot holds one request: the handler serving it, the await it stands at
\* (pc), the locals of generateCategoryStories, what the request has done so
\* far (calls of generateCategoryStories; inside them gen and tts provider calls,
\* store reads and writes; hwrites of the handler itself), and its response.
IdleReq ==
  [handler |-> "idle", pc |-> "idle", slot |-> 0,
   key |-> NULL, target |-> 0, hasReq |-> FALSE,
   existingCount |-> -1, need |-> 0, parsed |-> <<>>, ample |-> FALSE,
   latestCount |-> -1, toSave |-> <<>>, i |-> 0,
   audioUrl |-> NULL, audioPending |-> FALSE, saved |-> <<>>,
   outcome |-> "none", error |-> "",
   calls |-> 0, gen |-> 0, tts |-> 0, reads |-> 0, writes |-> 0, hwrites |-> 0,
   storeFailed |-> FALSE, alone |-> TRUE,
   storyId |-> 0, found |-> -1, status |-> 0, message |-> "", body |-> {}]

\* the awaits inside generateCategoryStories
InCall == {"count1", "generate", "count2", "dup", "audio", "create"}

\* a write of slot q reaches the store while other slots are inside a call
Interfere(q, R) ==
  [p \in Procs |->
     IF p # q /\ R[p].pc \in InCall THEN [R[p] EXCEPT !.alone = FALSE] ELSE R[p]]

\* res.json / res.status(..).json: the request is answered
Respond(r, status, message, body) ==
  [r EXCEPT !.status = status, !.message = message, !.body = body]

\* the locals of the save loop end with the call
Settle(r) ==
  [r EXCEPT !.parsed = <<>>, !.toSave = <<>>, !.i = 0,
            !.audioUrl = NULL, !.audioPending = FALSE]

\* generateCategoryStories returns list to its caller
Return(r, list) ==
  LET r2 == [Settle(r) EXCEPT !.outcome = "returned", !.saved = list]
  IN IF r.handler = "get"
     THEN [r2 EXCEPT !.pc = "getFind2"]
     ELSE IF r.handler = "regenerate"
     THEN Respond([r2 EXCEPT !.pc = "done"], 200, "New story generated",
                  IF list = <<>> THEN {} ELSE {s \in stories : s.id = list[1]})
     ELSE [r2 EXCEPT !.pc = "done"]

\* a rejection that is answered to the client whoever called
ThrowAnswers(r, error) ==
  Respond([Settle(r) EXCEPT !.outcome = "threw", !.error = error, !.pc = "done"],
          500, "Server error", {})

\* generateCategoryStories rejects: the GET handler catches and answers with the
\* stories it has, regenerate-story answers 500, a scheduled call's .catch logs,
\* a direct caller sees the error
Throw(r, error) ==
  LET r2 == [Settle(r) EXCEPT !.outcome = "threw", !.error = error, !.pc = "done"]
  IN IF r.handler = "get" THEN Respond(r2, 200, "success", {})
     ELSE IF r.handler = "regenerate"
     THEN Respond(r2, 500, "Failed to generate replacement", {})
     ELSE r2

\* the head without the registry lookup
EnterReplenishUnchecked(r, key, target, hasReq) ==
  [r EXCEPT !.key = key, !.target = target, !.hasReq = hasReq,
            !.calls = @ + 1, !.alone = TRUE, !.pc = "count1"]

\* the synchronous head of generateCategoryStories: the registry lookup
EnterReplenish(r, key, target, hasReq) ==
  LET r2 == [r EXCEPT !.key = key, !.target = target, !.hasReq = hasReq,
                      !.calls = @ + 1, !.alone = TRUE]
  IN IF key \notin CategoryKeys
     THEN Throw(r2, "Invalid categoryKey")
     ELSE [r2 EXCEPT !.pc = "count1"]

\* a save loop that ends after its first candidate
NextCandidateStops(r) == Return(r, r.saved)

\* the save loop moves to its next candidate, or returns saved after the last
NextCandidate(r) ==
  IF r.i < Len(r.toSave)
  THEN [r EXCEPT !.i = @ + 1, !.pc = "dup"]
  ELSE Return(r, r.saved)

\* a slice that keeps the whole list
SliceAll(list, n) == list

\* list.slice(0, n)
Slice(list, n) == SubSeq(list, 1, Min(n, Len(list)))

\* a shortfall that is never there
ShortfallNone(target, count) == 0

\* a shortfall that is one too large
ShortfallOffByOne(target, count) == Max(0, target - count + 1)

\* need = Math.max(0, targetTotal - existingCount)
Shortfall(target, count) == Max(0, target - count)

\* a store operation succeeds (ok) or rejects; MaxFailures of them reject
StoreOp(ok) ==
  /\ ok \/ failures < MaxFailures
  /\ failures' = IF ok THEN failures ELSE failures + 1

\* a request is taken by the lowest slot that has served none
Accept(p) ==
  /\ req[p].pc = "idle"
  /\ \A q \in Procs : q < p => req[q].pc # "idle"

\* ------------------------------------------------- generateCategoryStories
\* a caller of the exported function, with no req
ReplenishCall(p, key, target) ==
  /\ Accept(p)
  /\ req' = [req EXCEPT ![p] =
               EnterReplenish([IdleReq EXCEPT !.handler = "direct", !.slot = p],
                              key, target, FALSE)]
  /\ UNCHANGED <<stories, nextId, env, failures>>

\* const existingCount = await Story.countDocuments(..); need; if (need <= 0) return []
Count1(p, ok) ==
  /\ req[p].pc = "count1"
  /\ LET r == req[p]
         n == CountDocuments(r.key)
         need == Shortfall(r.target, n)
     IN req' = [req EXCEPT ![p] =
          IF ~ok THEN Throw([r EXCEPT !.storeFailed = TRUE], "store")
          ELSE LET r2 == [r EXCEPT !.reads = @ + 1, !.existingCount = n, !.need = need]
               IN IF need <= 0 THEN Return(r2, <<>>)
                  ELSE [r2 EXCEPT !.pc = "generate"]]
  /\ UNCHANGED <<stories, nextId, env>>

\* the provider's text is a parseable array of at least need objects, each with
\* title, description and content, no title twice, none the title of an active
\* record of the collection
Ample(text, need, key) ==
  /\ text.kind = "json"
  /\ Len(text.arr) >= need
  /\ \A k \in 1..Len(text.arr) :
       /\ text.arr[k].title # "" /\ text.arr[k].description # ""
       /\ text.arr[k].content # ""
       /\ FindDuplicate(text.arr[k].title, key) = {}
       /\ \A j \in 1..Len(text.arr) : j # k => text.arr[j].title # text.arr[k].title

\* a provider answering without the key check
ProviderAnswersUnguarded(text) == text \in ProviderTexts

\* aiText: what generateWithOpenAI answers when the key is configured, '' when
\* it is not (the provider is then not called)
ProviderAnswers(text) ==
  IF env.OPENAI_API_KEY THEN text \in ProviderTexts ELSE text = EmptyText

\* the text provider is called once (when configured), its text parsed
Generate(p, text) ==
  /\ req[p].pc = "generate"
  /\ ProviderAnswers(text)
  /\ UNCHANGED failures
  /\ LET r == req[p]
         parsed == AggregatedParsed(text, r.need)
         r2 == [r EXCEPT !.gen = IF env.OPENAI_API_KEY THEN @ + 1 ELSE @,
                         !.parsed = parsed,
                         !.ample = Ample(text, r.need, r.key)]
     IN req' = [req EXCEPT ![p] =
          IF parsed = <<>> THEN Return(r2, <<>>)
          ELSE [r2 EXCEPT !.pc = "count2"]]
  /\ UNCHANGED <<stories, nextId, env>>

\* const latestCount = await Story.countDocuments(..); remainingNeed; toSave
Count2(p, ok) ==
  /\ req[p].pc = "count2"
  /\ LET r == req[p]
         n == CountDocuments(r.key)
         remainingNeed == Shortfall(r.target, n)
     IN req' = [req EXCEPT ![p] =
          IF ~ok THEN Throw([r EXCEPT !.storeFailed = TRUE], "store")
          ELSE LET r2 == [r EXCEPT !.reads = @ + 1, !.latestCount = n]
               IN IF remainingNeed <= 0 THEN Return(r2, <<>>)
                  ELSE [r2 EXCEPT
                          !.toSave = Slice(r.parsed, remainingNeed),
                          !.i = 1, !.saved = <<>>, !.pc = "dup"]]
  /\ UNCHANGED <<stories, nextId, env>>

\* const duplicate = await Story.findOne({title, generatedForCollection, isActive})
DupCheck(p, ok) ==
  /\ req[p].pc = "dup"
  /\ LET r == req[p]
         s == r.toSave[r.i]
     IN req' = [req EXCEPT ![p] =
          IF ~ok THEN NextCandidate([r EXCEPT !.storeFailed = TRUE])
          ELSE LET r2 == [r EXCEPT !.reads = @ + 1]
               IN IF FindDuplicate(s.title, r.key) # {}
                  THEN NextCandidate(r2)
                  ELSE [r2 EXCEPT !.pc = "audio"]]
  /\ UNCHANGED <<stories, nextId, env>>

\* an audio step that gives the candidate up when the synthesis gave no audio
AudioBlocks(p, ok, url) ==
  /\ req[p].pc = "audio"
  /\ LET r == req[p]
         s == r.toSave[r.i]
         reuse == FindWithAudio(s.title, s.content)
         synth == env.ELEVENLABS_API_KEY /\ r.hasReq
     IN /\ (~ok \/ reuse # {} \/ ~synth) => url = NULL
        /\ req' = [req EXCEPT ![p] =
             IF ~ok THEN NextCandidate([r EXCEPT !.storeFailed = TRUE])
             ELSE LET r2 == [r EXCEPT !.reads = @ + 1, !.pc = "create"]
                  IN IF reuse # {}
                     THEN [r2 EXCEPT !.audioUrl = (CHOOSE e \in reuse : TRUE).audioUrl,
                                     !.audioPending = FALSE]
                     ELSE IF synth /\ url = NULL
                     THEN NextCandidate([r2 EXCEPT !.tts = @ + 1])
                     ELSE IF synth
                     THEN [r2 EXCEPT !.tts = @ + 1, !.audioUrl = url,
                                     !.audioPending = FALSE]
                     ELSE [r2 EXCEPT !.audioUrl = NULL,
                                     !.audioPending = env.ELEVENLABS_API_KEY]]
  /\ UNCHANGED <<stories, nextId, env>>

\* existingWithAudio lookup, then speech synthesis when configured and req is
\* given; url is what textToElevenlabsAudio answers (NULL: no audio)
Audio(p, ok, url) ==
  /\ req[p].pc = "audio"
  /\ LET r == req[p]
         s == r.toSave[r.i]
         reuse == FindWithAudio(s.title, s.content)
         synth == env.ELEVENLABS_API_KEY /\ r.hasReq
     IN /\ (~ok \/ reuse # {} \/ ~synth) => url = NULL
        /\ req' = [req EXCEPT ![p] =
             IF ~ok THEN NextCandidate([r EXCEPT !.storeFailed = TRUE])
             ELSE LET r2 == [r EXCEPT !.reads = @ + 1, !.pc = "create"]
                  IN IF reuse # {}
                     THEN [r2 EXCEPT !.audioUrl = (CHOOSE e \in reuse : TRUE).audioUrl,
                                     !.audioPending = FALSE]
                     ELSE IF synth
                     THEN [r2 EXCEPT !.tts = @ + 1, !.audioUrl = url,
                                     !.audioPending = (url = NULL)]
                     ELSE [r2 EXCEPT !.audioUrl = NULL,
                                     !.audioPending = env.ELEVENLABS_API_KEY]]
  /\ UNCHANGED <<stories, nextId, env>>

\* storyData with the theme and category of one fixed collection
StoryDataFixedTheme(r) ==
  LET s == r.toSave[r.i]
  IN [title |-> s.title, description |-> s.description, content |-> s.content,
      theme |-> STORY_CATEGORIES["mom-stories"].theme,
      category |-> STORY_CATEGORIES["mom-stories"].category,
      isAIGenerated |-> TRUE, isActive |-> TRUE,
      generatedForCollection |-> r.key,
      audioUrl |-> r.audioUrl, audioPending |-> r.audioPending,
      by |-> r.slot]

\* storyData of the candidate the loop stands at
StoryData(r) ==
  LET s == r.toSave[r.i]
  IN [title |-> s.title, description |-> s.description, content |-> s.content,
      theme |-> STORY_CATEGORIES[r.key].theme,
      category |-> STORY_CATEGORIES[r.key].category,
      isAIGenerated |-> TRUE, isActive |-> TRUE,
      generatedForCollection |-> r.key,
      audioUrl |-> r.audioUrl, audioPending |-> r.audioPending,
      by |-> r.slot]

\* const doc = await Story.create(storyData); saved.push(doc)
Create(p, ok) ==
  /\ req[p].pc = "create"
  /\ LET r == req[p]
         d == StoryData(r)
     IN IF ok /\ Validates(d)
        THEN /\ nextId <= MaxStories
             /\ stories' = stories \cup {Document(nextId, d)}
             /\ nextId' = nextId + 1
             /\ req' = Interfere(p, [req EXCEPT ![p] =
                  NextCandidate([r EXCEPT !.writes = @ + 1,
                                          !.saved = Append(@, nextId)])])
        ELSE /\ req' = [req EXCEPT ![p] = NextCandidate([r EXCEPT !.storeFailed = TRUE])]
             /\ UNCHANGED <<stories, nextId>>
  /\ UNCHANGED env

\* ------------------------------------- GET /category-stories/:categoryKey
\* the registry check that precedes every store access
GetCategoryStories(p, key) ==
  /\ Accept(p)
  /\ LET r == [IdleReq EXCEPT !.handler = "get", !.slot = p, !.key = key]
     IN req' = [req EXCEPT ![p] =
          IF key \notin CategoryKeys
          THEN Respond([r EXCEPT !.pc = "done"], 400, "Invalid category", {})
          ELSE [r EXCEPT !.pc = "getFind1"]]
  /\ UNCHANGED <<stories, nextId, env, failures>>

\* let stories = await Story.find(..).sort(..).limit(TARGET); generate when empty
GetFind1(p, ok) ==
  /\ req[p].pc = "getFind1"
  /\ LET r == req[p]
         found == SortLimit(ActiveAI(r.key), DEFAULT_TARGET_PER_CATEGORY)
     IN req' = [req EXCEPT ![p] =
          IF ~ok THEN Respond([r EXCEPT !.pc = "done"], 500, "Server error", {})
          ELSE LET r2 == [r EXCEPT !.found = Cardinality(found)]
               IN IF found # {}
                  THEN Respond([r2 EXCEPT !.pc = "done"], 200, "success", found)
                  ELSE EnterReplenish(r2, r.key, DEFAULT_TARGET_PER_CATEGORY, TRUE)]
  /\ UNCHANGED <<stories, nextId, env>>

\* stories = await Story.find(..) after the generation; a failure here is caught
\* with the generation's and the empty list is answered
GetFind2(p, ok) ==
  /\ req[p].pc = "getFind2"
  /\ LET r == req[p]
         found == SortLimit(ActiveAI(r.key), DEFAULT_TARGET_PER_CATEGORY)
     IN req' = [req EXCEPT ![p] =
          IF ~ok THEN Respond([r EXCEPT !.pc = "done"], 200, "success", {})
          ELSE Respond([r EXCEPT !.pc = "done"], 200, "success", found)]
  /\ UNCHANGED <<stories, nextId, env>>

\* ------------------------------------------------ POST /stories/:id/complete
CompleteStory(p, id) ==
  /\ Accept(p)
  /\ req' = [req EXCEPT ![p] =
               [IdleReq EXCEPT !.handler = "complete", !.slot = p, !.storyId = id,
                               !.pc = "cFind"]]
  /\ UNCHANGED <<stories, nextId, env, failures>>

\* const story = await Story.findById(id); 404 unless it is there and active
CompleteFind(p, ok) ==
  /\ req[p].pc = "cFind"
  /\ LET r == req[p]
         hit == {s \in stories : s.id = r.storyId}
     IN req' = [req EXCEPT ![p] =
          IF ~ok THEN Respond([r EXCEPT !.pc = "done"], 500, "Server error", {})
          ELSE IF hit = {} \/ \A s \in hit : ~s.isActive
          THEN Respond([r EXCEPT !.pc = "done"], 404, "Story not found", {})
          ELSE [r EXCEPT !.body = hit, !.pc = "cStats"]]
  /\ UNCHANGED <<stories, nextId, env>>

\* story.stats.completions = ..; await story.save(): completions is no path of
\* storySchema.stats, so the save changes no field the model keeps
CompleteStats(p, ok) ==
  /\ req[p].pc = "cStats"
  /\ LET r == req[p]
         story == CHOOSE s \in r.body : TRUE
     IN req' = [req EXCEPT ![p] =
          IF ~ok THEN Respond([r EXCEPT !.pc = "done", !.body = {}], 500, "Server error", {})
          ELSE IF story.isAIGenerated /\ story.generatedForCollection # NULL
          THEN [r EXCEPT !.pc = "cRetire"]
          ELSE Respond([r EXCEPT !.pc = "done", !.body = {}], 200,
                       "Story marked as completed", {})]
  /\ UNCHANGED <<stories, nextId, env>>

\* a hook that schedules the replacement and leaves the record as it is
CompleteRetireUnsaved(p, ok) ==
  /\ req[p].pc = "cRetire"
  /\ LET r == req[p]
         story == CHOOSE s \in r.body : TRUE
         answered == Respond([r EXCEPT !.body = {}], 200, "Story marked as completed", {})
     IN req' = [req EXCEPT ![p] =
          EnterReplenish([answered EXCEPT !.hwrites = @ + 1, !.handler = "scheduled"],
                         story.generatedForCollection, 1, TRUE)]
  /\ UNCHANGED <<stories, nextId, env>>

\* story.isActive = false; await story.save(); then generateCategoryStories(.., 1,
\* req) is called and not awaited: the response is sent, the slot goes on as the
\* scheduled call.  save() of a document that is no longer in the collection
\* rejects; the inner catch logs it and nothing is scheduled
CompleteRetire(p, ok) ==
  /\ req[p].pc = "cRetire"
  /\ LET r == req[p]
         story == CHOOSE s \in r.body : TRUE
         answered == Respond([r EXCEPT !.body = {}], 200, "Story marked as completed", {})
     IN IF ~ok \/ ~InStore(story.id)
        THEN /\ req' = [req EXCEPT ![p] = [answered EXCEPT !.pc = "done"]]
             /\ UNCHANGED stories
        ELSE /\ stories' = {IF s.id = story.id THEN [s EXCEPT !.isActive = FALSE] ELSE s :
                              s \in stories}
             /\ req' = Interfere(p, [req EXCEPT ![p] =
                  EnterReplenish([answered EXCEPT !.hwrites = @ + 1, !.handler = "scheduled"],
                                 story.generatedForCollection, 1, TRUE)])
  /\ UNCHANGED <<nextId, env>>

\* ---------------------------------------------------- POST /stories/:id/play
PlayStory(p, id) ==
  /\ Accept(p)
  /\ req' = [req EXCEPT ![p] =
               [IdleReq EXCEPT !.handler = "play", !.slot = p, !.storyId = id,
                               !.pc = "pFind"]]
  /\ UNCHANGED <<stories, nextId, env, failures>>

\* a lookup that answers for a retired story as for an active one
PlayFindAny(p, ok) ==
  /\ req[p].pc = "pFind"
  /\ LET r == req[p]
         hit == {s \in stories : s.id = r.storyId}
     IN req' = [req EXCEPT ![p] =
          IF ~ok THEN Respond([r EXCEPT !.pc = "done"], 500, "Server error", {})
          ELSE IF hit = {}
          THEN Respond([r EXCEPT !.pc = "done"], 404, "Story not found", {})
          ELSE [r EXCEPT !.body = hit, !.pc = "pSave"]]
  /\ UNCHANGED <<stories, nextId, env>>

\* const story = await Story.findById(id); 404 unless it is there and active
PlayFind(p, ok) ==
  /\ req[p].pc = "pFind"
  /\ LET r == req[p]
         hit == {s \in stories : s.id = r.storyId}
     IN req' = [req EXCEPT ![p] =
          IF ~ok THEN Respond([r EXCEPT !.pc = "done"], 500, "Server error", {})
          ELSE IF hit = {} \/ \A s \in hit : ~s.isActive
          THEN Respond([r EXCEPT !.pc = "done"], 404, "Story not found", {})
          ELSE [r EXCEPT !.body = hit, !.pc = "pSave"]]
  /\ UNCHANGED <<stories, nextId, env>>

\* story.stats.totalPlays = (story.stats.totalPlays || 0) + 1; await story.save():
\* the loaded value plus one is written to the document with that _id
PlaySave(p, ok) ==
  /\ req[p].pc = "pSave"
  /\ LET r == req[p]
         story == CHOOSE s \in r.body : TRUE
         r2 == [r EXCEPT !.body = {}, !.pc = "done"]
     IN IF ~ok \/ ~InStore(story.id)
        THEN /\ req' = [req EXCEPT ![p] = Respond(r2, 500, "Server error", {})]
             /\ UNCHANGED stories
        ELSE /\ stories' = {IF s.id = story.id
                             THEN [s EXCEPT !.totalPlays = story.totalPlays + 1] ELSE s :
                              s \in stories}
             /\ req' = Interfere(p, [req EXCEPT ![p] =
                  Respond([r2 EXCEPT !.hwrites = @ + 1], 200, "Play count updated", {})])
  /\ UNCHANGED <<nextId, env>>

\* ------------------------------- POST /children/:childId/complete/:contentId
\* the child is the caller's and contentId is a well-formed id
CompleteContent(p, id) ==
  /\ Accept(p)
  /\ req' = [req EXCEPT ![p] =
               [IdleReq EXCEPT !.handler = "childComplete", !.slot = p, !.storyId = id,
                               !.pc = "ccFind"]]
  /\ UNCHANGED <<stories, nextId, env, failures>>

\* const story = await Story.findOne({_id: contentId, isActive: true}); 404 when
\* there is neither such a story nor such an activity
CompleteContentFind(p, ok) ==
  /\ req[p].pc = "ccFind"
  /\ LET r == req[p]
         hit == {s \in stories : s.id = r.storyId /\ s.isActive}
     IN req' = [req EXCEPT ![p] =
          IF ~ok THEN Respond([r EXCEPT !.pc = "done"], 500, "Server error", {})
          ELSE IF hit = {}
          THEN Respond([r EXCEPT !.pc = "done"], 404, "Content not found", {})
          ELSE [r EXCEPT !.body = hit, !.pc = "ccWrite"]]
  /\ UNCHANGED <<stories, nextId, env>>

\* story.stats.completions = ..; for an AI story of a collection
\* await Story.deleteOne({_id}) and the call of generateCategoryStories(.., 1,
\* req) that is not awaited; for any other story await story.save(), which
\* changes no field the schema has
CompleteContentWrite(p, ok) ==
  /\ req[p].pc = "ccWrite"
  /\ LET r == req[p]
         story == CHOOSE s \in r.body : TRUE
         r2 == [r EXCEPT !.body = {}]
     IN IF ~ok
        THEN /\ req' = [req EXCEPT ![p] =
                  Respond([r2 EXCEPT !.pc = "done"], 500, "Server error", {})]
             /\ UNCHANGED stories
        ELSE IF story.isAIGenerated /\ story.generatedForCollection # NULL
        THEN /\ stories' = {s \in stories : s.id # story.id}
             /\ req' = Interfere(p, [req EXCEPT ![p] =
                  EnterReplenish(
                    [Respond(r2, 200, "Content completed successfully", {})
                       EXCEPT !.hwrites = @ + 1, !.handler = "scheduled"],
                    story.generatedForCollection, 1, TRUE)])
        ELSE /\ req' = [req EXCEPT ![p] =
                  Respond([r2 EXCEPT !.pc = "done"], 200,
                          "Content completed successfully", {})]
             /\ UNCHANGED stories
  /\ UNCHANGED <<nextId, env>>

\* ------------------------------------------------- POST /regenerate-story
\* the registry check; storyId is a well-formed id
RegenerateStory(p, id, key) ==
  /\ Accept(p)
  /\ LET r == [IdleReq EXCEPT !.handler = "regenerate", !.slot = p, !.key = key,
                              !.storyId = id]
     IN req' = [req EXCEPT ![p] =
          IF key \notin CategoryKeys
          THEN Respond([r EXCEPT !.pc = "done"], 400, "Invalid category", {})
          ELSE [r EXCEPT !.pc = "rFind"]]
  /\ UNCHANGED <<stories, nextId, env, failures>>

\* const existingStory = await Story.findById(storyId); an error is caught and
\* the handler goes on to generate
RegenerateFind(p, ok) ==
  /\ req[p].pc = "rFind"
  /\ LET r == req[p]
         hit == {s \in stories : s.id = r.storyId /\ s.isActive}
     IN req' = [req EXCEPT ![p] =
          IF ok /\ hit # {}
          THEN [r EXCEPT !.pc = "rSave"]
          ELSE EnterReplenish(r, r.key, 1, TRUE)]
  /\ UNCHANGED <<stories, nextId, env>>

\* existingStory.isActive = false; await existingStory.save(); then the awaited
\* generateCategoryStories(categoryKey, .., 1, req)
RegenerateSave(p, ok) ==
  /\ req[p].pc = "rSave"
  /\ LET r == req[p]
     IN IF ~ok
        THEN /\ req' = [req EXCEPT ![p] = EnterReplenish(r, r.key, 1, TRUE)]
             /\ UNCHANGED stories
        ELSE /\ stories' = {IF s.id = r.storyId THEN [s EXCEPT !.isActive = FALSE] ELSE s :
                              s \in stories}
             /\ req' = Interfere(p, [req EXCEPT ![p] =
                  EnterReplenish([r EXCEPT !.hwrites = @ + 1], r.key, 1, TRUE)])
  /\ UNCHANGED <<nextId, env>>

\* --------------------------------------------------- POST /stories/from-ai
\* the body validators ask for a title, a content and a generatedForCollection;
\* story.save() validates the schema
SaveFromAI(p, title, coll) ==
  /\ Accept(p)
  /\ LET d == [title |-> title, description |-> "saved from the app", content |-> "body",
               theme |-> "ai_generated", category |-> "audio",
               isAIGenerated |-> TRUE, isActive |-> TRUE,
               generatedForCollection |-> coll,
               audioUrl |-> NULL, audioPending |-> FALSE,
               by |-> 0]
         r == [IdleReq EXCEPT !.handler = "from-ai", !.slot = p, !.pc = "done"]
     IN IF coll = NULL
        THEN /\ req' = [req EXCEPT ![p] = Respond(r, 400, "Validation failed", {})]
             /\ UNCHANGED <<stories, nextId>>
        ELSE IF ~Validates(d)
        THEN /\ req' = [req EXCEPT ![p] = Respond(r, 500, "Server error", {})]
             /\ UNCHANGED <<stories, nextId>>
        ELSE /\ nextId <= MaxStories
             /\ stories' = stories \cup {Document(nextId, d)}
             /\ nextId' = nextId + 1
             /\ req' = Interfere(p, [req EXCEPT ![p] =
                  Respond([r EXCEPT !.hwrites = 1], 201, "AI story saved", {})])
  /\ UNCHANGED <<env, failures>>

\* ----------------------------------------------------------- POST /stories
\* storyData = {...req.body, createdBy}: every schema field is the client's
CreateStory(p, title, ai, coll) ==
  /\ Accept(p)
  /\ LET d == [title |-> title, description |-> "hand written", content |-> "body",
               theme |-> "kindness", category |-> "bedtime",
               isAIGenerated |-> ai, isActive |-> TRUE,
               generatedForCollection |-> coll,
               audioUrl |-> NULL, audioPending |-> FALSE,
               by |-> 0]
         r == [IdleReq EXCEPT !.handler = "create", !.slot = p, !.pc = "done"]
     IN IF ~Validates(d)
        THEN /\ req' = [req EXCEPT ![p] = Respond(r, 500, "Server error", {})]
             /\ UNCHANGED <<stories, nextId>>
        ELSE /\ nextId <= MaxStories
             /\ stories' = stories \cup {Document(nextId, d)}
             /\ nextId' = nextId + 1
             /\ req' = Interfere(p, [req EXCEPT ![p] =
                  Respond([r EXCEPT !.hwrites = 1], 201, "Story created successfully", {})])
  /\ UNCHANGED <<env, failures>>

\* ------------------------------------------------------- specification
\* what an earlier run of the service left in the collection: nothing, or one
\* story generateCategoryStories saved for learn-stories
Seed ==
  Document(1, [title |-> "Brave Fox", description |-> "A tale of courage",
               content |-> "fox-body",
               theme |-> STORY_CATEGORIES["learn-stories"].theme,
               category |-> STORY_CATEGORIES["learn-stories"].category,
               isAIGenerated |-> TRUE, isActive |-> TRUE,
               generatedForCollection |-> "learn-stories",
               audioUrl |-> NULL, audioPending |-> FALSE,
               by |-> 0])

\* the ids requests name: those of the documents there are, and 0 for a
\* well-formed id that no document has
RequestIds == {0} \cup {s.id : s \in stories}

\* no call is looked at on its own
NoCall == [fn |-> "none", pc |-> "none"]

Init ==
  /\ stories \in {{}, {Seed}}
  /\ nextId = Cardinality(stories) + 1
  /\ env \in [OPENAI_API_KEY : BOOLEAN, ELEVENLABS_API_KEY : BOOLEAN]
  /\ req = [p \in Procs |-> IdleReq]
  /\ failures = 0
  /\ call = NoCall

Next ==
  \E p \in Procs :
    \/ \E key \in RequestKeys, target \in 0..MaxTarget : ReplenishCall(p, key, target) /\ UNCHANGED call
    \/ \E ok \in BOOLEAN : StoreOp(ok) /\ Count1(p, ok) /\ UNCHANGED call
    \/ \E text \in ProviderTexts : Generate(p, text) /\ UNCHANGED call
    \/ \E ok \in BOOLEAN : StoreOp(ok) /\ Count2(p, ok) /\ UNCHANGED call
    \/ \E ok \in BOOLEAN : StoreOp(ok) /\ DupCheck(p, ok) /\ UNCHANGED call
    \/ \E ok \in BOOLEAN, url \in {NULL, "audio-url"} : StoreOp(ok) /\ Audio(p, ok, url) /\ UNCHANGED call
    \/ \E ok \in BOOLEAN : StoreOp(ok) /\ Create(p, ok) /\ UNCHANGED call
    \/ \E key \in RequestKeys : GetCategoryStories(p, key) /\ UNCHANGED call
    \/ \E ok \in BOOLEAN : StoreOp(ok) /\ GetFind1(p, ok) /\ UNCHANGED call
    \/ \E ok \in BOOLEAN : StoreOp(ok) /\ GetFind2(p, ok) /\ UNCHANGED call
    \/ \E id \in RequestIds : CompleteStory(p, id) /\ UNCHANGED call
    \/ \E ok \in BOOLEAN : StoreOp(ok) /\ CompleteFind(p, ok) /\ UNCHANGED call
    \/ \E ok \in BOOLEAN : StoreOp(ok) /\ CompleteStats(p, ok) /\ UNCHANGED call
    \/ \E ok \in BOOLEAN : StoreOp(ok) /\ CompleteRetire(p, ok) /\ UNCHANGED call
    \/ \E id \in RequestIds : PlayStory(p, id) /\ UNCHANGED call
    \/ \E ok \in BOOLEAN : StoreOp(ok) /\ PlayFind(p, ok) /\ UNCHANGED call
    \/ \E ok \in BOOLEAN : StoreOp(ok) /\ PlaySave(p, ok) /\ UNCHANGED call
    \/ \E id \in RequestIds : CompleteContent(p, id) /\ UNCHANGED call
    \/ \E ok \in BOOLEAN : StoreOp(ok) /\ CompleteContentFind(p, ok) /\ UNCHANGED call
    \/ \E ok \in BOOLEAN : StoreOp(ok) /\ CompleteContentWrite(p, ok) /\ UNCHANGED call
    \/ \E id \in RequestIds, key \in RequestKeys : RegenerateStory(p, id, key) /\ UNCHANGED call
    \/ \E ok \in BOOLEAN : StoreOp(ok) /\ RegenerateFind(p, ok) /\ UNCHANGED call
    \/ \E ok \in BOOLEAN : StoreOp(ok) /\ RegenerateSave(p, ok) /\ UNCHANGED call
    \/ \E coll \in {NULL, "mom-stories", "space-stories"} : SaveFromAI(p, "Kind Owl", coll) /\ UNCHANGED call
    \/ \E ai \in BOOLEAN, coll \in {NULL, "learn-stories"} :
         CreateStory(p, "Brave Fox", ai, coll) /\ UNCHANGED call

Spec == Init /\ [][Next]_vars

\* ------------------------------- the parser and the gateway on their own
\* the lines a text is made of: up to MaxSeps separators each
TokenLines == UNION {[1..k -> LineTokens] : k \in 0..MaxSeps}

\* what a parsed array holds: an object with title and content, one without a
\* title (as null, a number or a string are), one without a content
JsonElements ==
  {Fox, Obj("", "no title", "body"), Obj("Kind Owl", "no content", "")}

\* (a text whose span is an array is taken with one line)
ParserTexts ==
  {[span |-> "array", arr |-> a, lines |-> <<l>>] :
     a \in UNION {[1..k -> JsonElements] : k \in 0..MaxLines},
     l \in TokenLines}
  \cup {[span |-> sp, arr |-> <<>>, lines |-> l] :
           sp \in {"broken", "object"},
           l \in UNION {[1..k -> TokenLines] : k \in 1..MaxLines}}
  \cup {[span |-> "none", arr |-> <<>>, lines |-> l] :
           l \in UNION {[1..k -> TokenLines] : k \in 0..MaxLines}}

\* the parsing of generateCategoryStories is reached with need >= 1 only
ParserCalls ==
  {[fn |-> "parse", pc |-> "called", text |-> t, count |-> n,
    raised |-> FALSE, out |-> <<>>] : t \in ParserTexts, n \in 1..MaxCount}

TextCalls ==
  {[fn |-> "text", pc |-> "called", http |-> h,
    raised |-> FALSE, out |-> Undefined] : h \in HttpOutcomes}

\* voice: ELEVENLABS_VOICE is configured; tts1, save1: the synthesis with it and
\* the write of its audio file succeed; voices; tts2, save2: the same with the
\* first listed voice, whose id is not the configured one; voiceAfter:
\* ELEVENLABS_VOICE when the call has returned
SpeechCalls ==
  {[fn |-> "speech", pc |-> "called", voice |-> v, tts1 |-> t1, save1 |-> s1,
    voices |-> vl, tts2 |-> t2, save2 |-> s2,
    raised |-> FALSE, out |-> NULL, voiceAfter |-> NULL] :
     v \in BOOLEAN, t1 \in BOOLEAN, s1 \in BOOLEAN, vl \in VoiceLists,
     t2 \in BOOLEAN, s2 \in BOOLEAN}

\* the numbers of one candidate of the structured tier: from the object's
\* duration and the call's childAge
CandidateCalls ==
  {[fn |-> "candidate", pc |-> "called", duration |-> d, childAge |-> a,
    raised |-> FALSE, out |-> [duration |-> 0, ageRange |-> [min |-> 0, max |-> 0]]] :
     d \in DurationValues, a \in (0 - MaxAge)..MaxAge}

\* the structured tier in its try, then parseGeneratedText when it gave nothing
ParseReturn ==
  /\ call.fn = "parse" /\ call.pc = "called"
  /\ call' = [call EXCEPT !.pc = "returned",
                          !.raised = Caught(JsonParseThrows(call.text)),
                          !.out = AggregatedParsed(AiText(call.text), call.count)]
  /\ UNCHANGED <<stories, nextId, env, req, failures>>

TextReturn ==
  /\ call.fn = "text" /\ call.pc = "called"
  /\ call' = [call EXCEPT !.pc = "returned",
                          !.raised = Caught(call.http.kind = "error"),
                          !.out = generateWithOpenAI(call.http)]
  /\ UNCHANGED <<stories, nextId, env, req, failures>>

SpeechReturn ==
  /\ call.fn = "speech" /\ call.pc = "called"
  /\ call' = [call EXCEPT !.pc = "returned",
                          !.raised = Caught(textToElevenlabsAudio(call) = NULL),
                          !.out = textToElevenlabsAudio(call),
                          !.voiceAfter = EnvVoiceAfter(call)]
  /\ UNCHANGED <<stories, nextId, env, req, failures>>

CandidateReturn ==
  /\ call.fn = "candidate" /\ call.pc = "called"
  /\ call' = [call EXCEPT !.pc = "returned",
                          !.out = [duration |-> StructuredDuration(call.duration),
                                   ageRange |-> AgeRange(call.childAge)]]
  /\ UNCHANGED <<stories, nextId, env, req, failures>>

InitCalls ==
  /\ stories = {}
  /\ nextId = 1
  /\ req = [p \in Procs |-> IdleReq]
  /\ failures = 0
  /\ \/ /\ call \in ParserCalls \cup CandidateCalls
        /\ env = [OPENAI_API_KEY |-> TRUE, ELEVENLABS_API_KEY |-> TRUE]
     \/ /\ call \in TextCalls \cup SpeechCalls
        /\ env \in [OPENAI_API_KEY : BOOLEAN, ELEVENLABS_API_KEY : BOOLEAN]

NextCalls == ParseReturn \/ TextReturn \/ SpeechReturn \/ CandidateReturn

SpecCalls == InitCalls /\ [][NextCalls]_vars

\* ------------------------------------ a completion and what follows it
\* The collection learn-stories holds one active AI story.  Requests complete
\* stories (POST /stories/:id/complete) or GET a collection; every await that is
\* pending settles in the end, the store and the providers answering or failing.
InitHeal ==
  /\ stories = {Seed}
  /\ nextId = 2
  /\ env \in [OPENAI_API_KEY : BOOLEAN, ELEVENLABS_API_KEY : BOOLEAN]
  /\ req = [p \in Procs |-> IdleReq]
  /\ failures = 0
  /\ call = NoCall

\* a request arrives
HealRequest(p) ==
  \/ \E id \in RequestIds : CompleteStory(p, id) /\ UNCHANGED call
  \/ \E key \in RequestKeys : GetCategoryStories(p, key) /\ UNCHANGED call

\* the await slot p stands at settles
HealStep(p) ==
  \/ \E ok \in BOOLEAN : StoreOp(ok) /\ CompleteFind(p, ok) /\ UNCHANGED call
  \/ \E ok \in BOOLEAN : StoreOp(ok) /\ CompleteStats(p, ok) /\ UNCHANGED call
  \/ \E ok \in BOOLEAN : StoreOp(ok) /\ CompleteRetire(p, ok) /\ UNCHANGED call
  \/ \E ok \in BOOLEAN : StoreOp(ok) /\ GetFind1(p, ok) /\ UNCHANGED call
  \/ \E ok \in BOOLEAN : StoreOp(ok) /\ GetFind2(p, ok) /\ UNCHANGED call
  \/ \E ok \in BOOLEAN : StoreOp(ok) /\ Count1(p, ok) /\ UNCHANGED call
  \/ \E text \in ProviderTexts : Generate(p, text) /\ UNCHANGED call
  \/ \E ok \in BOOLEAN : StoreOp(ok) /\ Count2(p, ok) /\ UNCHANGED call
  \/ \E ok \in BOOLEAN : StoreOp(ok) /\ DupCheck(p, ok) /\ UNCHANGED call
  \/ \E ok \in BOOLEAN, url \in {NULL, "audio-url"} :
       StoreOp(ok) /\ Audio(p, ok, url) /\ UNCHANGED call
  \/ \E ok \in BOOLEAN : StoreOp(ok) /\ Create(p, ok) /\ UNCHANGED call

NextHeal == \E p \in Procs : HealRequest(p) \/ HealStep(p)

\* a pending await of a request is settled sooner or later
FairHeal == \A p \in Procs : WF_vars(HealStep(p))

SpecHeal == InitHeal /\ [][NextHeal]_vars /\ FairHeal

\* ------------------------------------------------------------- claims
\* slot p takes the step: its record changes, the others' at most in alone
Acts(p) ==
  /\ req'[p] # req[p]
  /\ \A q \in Procs \ {p} : [req'[q] EXCEPT !.alone = req[q].alone] = req[q]

\* the documents the call of slot p has created
CreatedBy(p) == {s \in stories : s.by = p}

\* C1: a generateCategoryStories call that read existingCount <= targetTotal
\* creates at most targetTotal - existingCount documents, and no step of a call
\* lowers the number of active AI documents of any collection.
C1_CreatesAtMostShortfall ==
  /\ [](\A p \in Procs :
          (req[p].existingCount >= 0 /\ req[p].target >= req[p].existingCount)
            => Cardinality(CreatedBy(p)) <= req[p].target - req[p].existingCount)
  /\ [][\A p \in Procs :
          (req[p].pc \in InCall /\ Acts(p))
            => \A key \in CategoryKeys :
                 Cardinality(ActiveAI(key))' >= Cardinality(ActiveAI(key))]_vars

\* a call that read a count of 1 for a target of 2, found the count at 0 on its
\* second read (the document was retired meanwhile) and created one document
C1_Witness ==
  \E p \in Procs :
    /\ req[p].outcome = "returned"
    /\ req[p].target = 2 /\ req[p].existingCount = 1 /\ req[p].latestCount = 0
    /\ Cardinality(CreatedBy(p)) = 1

\* C2: two generateCategoryStories calls for one collection with targetTotal 1,
\* in any interleaving, never leave two active documents of that collection
\* with the same title.
C2_NoSharedTitle ==
  \A p, q \in Procs :
    (/\ p # q
     /\ req[p].handler = "direct" /\ req[q].handler = "direct"
     /\ req[p].target = 1 /\ req[q].target = 1
     /\ req[p].key = req[q].key)
      => \A s, t \in stories :
           (/\ s.id # t.id
            /\ s.isActive /\ t.isActive
            /\ s.generatedForCollection = req[p].key
            /\ t.generatedForCollection = req[p].key)
             => s.title # t.title

\* C3: a call that reads a count of at least targetTotal returns the empty list
\* at once, having called no provider and written nothing.
C3_NoShortfallNoOp ==
  \A p \in Procs :
    (req[p].existingCount >= 0 /\ req[p].existingCount >= req[p].target)
      => /\ req[p].outcome = "returned"
         /\ req[p].saved = <<>>
         /\ req[p].gen = 0 /\ req[p].tts = 0 /\ req[p].writes = 0
         /\ CreatedBy(p) = {}

\* a direct call with target 1 that found one active AI document
C3_Witness ==
  \E p \in Procs :
    /\ req[p].handler = "direct" /\ req[p].target = 1
    /\ req[p].existingCount = 1 /\ req[p].outcome = "returned"

C5_UnconfiguredProvider ==
  ~env.OPENAI_API_KEY
    => \A p \in Procs :
         /\ req[p].gen = 0 /\ req[p].tts = 0 /\ req[p].writes = 0
         /\ CreatedBy(p) = {}
         /\ (req[p].need > 0 /\ req[p].pc \notin {"count1", "generate"})
              => req[p].outcome = "returned" /\ req[p].saved = <<>>

\* a call that found a shortfall and returned, with the speech key configured
\* and the text key not
C5_Witness ==
  /\ ~env.OPENAI_API_KEY /\ env.ELEVENLABS_API_KEY
  /\ \E p \in Procs : req[p].need > 0 /\ req[p].outcome = "returned"

\* C6: a call with a registered key never rejects.
C6_NeverRaises ==
  \A p \in Procs : req[p].key \in CategoryKeys => req[p].outcome # "threw"

\* C7: every document with isAIGenerated carries a generatedForCollection.
C7_AIHasCollection ==
  \A s \in stories : s.isAIGenerated => s.generatedForCollection # NULL

\* C8: the document a call's Story.create stores is AI-generated, active, of the
\* call's collection, with the theme and category of that collection's entry.
C8_PersistedFields ==
  [][\A p \in Procs :
       (req[p].pc = "create" /\ Acts(p))
         => \A s \in stories' \ stories :
              /\ s.isAIGenerated /\ s.isActive
              /\ s.generatedForCollection = req[p].key
              /\ s.theme = STORY_CATEGORIES[req[p].key].theme
              /\ s.category = STORY_CATEGORIES[req[p].key].category]_vars

\* a call for learn-stories has stored a document
C8_Witness ==
  \E s \in stories : s.by \in Procs /\ s.generatedForCollection = "learn-stories"

\* C9: a call that ran with no other writer and no store failure, found a
\* shortfall, and got from the provider an array of at least need objects (all
\* with title, description and content, titles distinct and not active in the
\* collection), returns with exactly need documents created and the collection's
\* count at targetTotal.
C9_FillsShortfall ==
  [][\A p \in Procs :
       (/\ req[p].pc \in InCall /\ Acts(p)
        /\ req'[p].outcome = "returned"
        /\ req'[p].alone /\ ~req'[p].storeFailed
        /\ req'[p].need > 0 /\ req'[p].ample)
         => /\ Len(req'[p].saved) = req'[p].target - req'[p].existingCount
            /\ Cardinality(CreatedBy(p))' = req'[p].target - req'[p].existingCount
            /\ Cardinality(ActiveAI(req[p].key))' = req'[p].target]_vars

\* learn-stories was empty, the target 1, and the call returned one document
C9_Witness ==
  \E p \in Procs :
    /\ req[p].outcome = "returned" /\ req[p].key = "learn-stories"
    /\ req[p].alone /\ ~req[p].storeFailed /\ req[p].ample
    /\ req[p].existingCount = 0 /\ req[p].target = 1
    /\ Len(req[p].saved) = 1

\* C10: a GET that found a document calls generateCategoryStories never and
\* writes nothing; a GET that found none calls it once and answers only after it
\* ended; what is answered are active AI documents of the collection.
C10_GetCategoryStories ==
  \A p \in Procs :
    req[p].handler = "get"
      => /\ req[p].found > 0
              => /\ req[p].calls = 0 /\ req[p].writes = 0 /\ req[p].hwrites = 0
                 /\ CreatedBy(p) = {}
         /\ req[p].found = 0 => req[p].calls = 1
         /\ (req[p].found = 0 /\ req[p].status # 0) => req[p].outcome # "none"
         /\ \A s \in req[p].body :
              /\ s.isActive /\ s.isAIGenerated
              /\ s.generatedForCollection = req[p].key

\* a GET found nothing, generated, and answered the new document
C10_Witness ==
  \E p \in Procs :
    /\ req[p].handler = "get" /\ req[p].status = 200
    /\ req[p].found = 0 /\ req[p].calls = 1 /\ req[p].body # {}

\* C11: the record POST /regenerate-story deactivates is an AI-generated record
\* of the collection the replacement is generated for; no record of another
\* collection and no hand-authored record is deactivated by it.
C11_RegenerateRetiresOwn ==
  [][\A p \in Procs :
       (req[p].handler = "regenerate" /\ Acts(p))
         => \A s \in stories :
              (s.isActive /\ \E t \in stories' : t.id = s.id /\ ~t.isActive)
                => /\ s.isAIGenerated
                   /\ s.generatedForCollection = req[p].key]_vars

\* C14: a call that read latestCount on its second count inserts at most
\* max(0, targetTotal - latestCount) documents, whatever its first count was;
\* toSave is the first remainingNeed parsed candidates, tried one after the other
\* in parsed order; with latestCount >= targetTotal it inserts nothing and
\* returns the empty list.
C14_RevalidatedShortfall ==
  /\ [](\A p \in Procs :
          req[p].latestCount >= 0
            => /\ req[p].writes <= Max(0, req[p].target - req[p].latestCount)
               /\ Cardinality(CreatedBy(p)) <= Max(0, req[p].target - req[p].latestCount)
               /\ req[p].latestCount >= req[p].target
                    => /\ req[p].outcome = "returned" /\ req[p].saved = <<>>
                       /\ req[p].writes = 0)
  /\ [][\A p \in Procs :
          /\ (req[p].pc = "count2" /\ Acts(p) /\ req'[p].pc = "dup")
               => /\ req'[p].i = 1
                  /\ Len(req'[p].toSave) <= req[p].target - req'[p].latestCount
                  /\ \A k \in 1..Len(req'[p].toSave) : req'[p].toSave[k] = req[p].parsed[k]
                  /\ \/ Len(req'[p].toSave) = Len(req[p].parsed)
                     \/ Len(req'[p].toSave) = req[p].target - req'[p].latestCount
          /\ (req[p].pc \in {"dup", "audio", "create"} /\ Acts(p) /\ req'[p].pc = "dup")
               => req'[p].i = req[p].i + 1 /\ req'[p].toSave = req[p].toSave
          /\ (req[p].pc = "create" /\ Acts(p))
               => \A s \in stories' \ stories :
                    s.title = req[p].toSave[req[p].i].title]_vars

\* a call that read 0 of a target of 2, parsed two candidates, read 1 on its
\* second count and inserted the first candidate only
C14_Witness ==
  \E p \in Procs :
    /\ req[p].outcome = "returned" /\ req[p].target = 2
    /\ req[p].existingCount = 0 /\ req[p].need = 2 /\ req[p].latestCount = 1
    /\ req[p].writes = 1
    /\ \E s \in CreatedBy(p) : s.title = "Brave Fox"

\* C15: the second count does not exclude overrun, and overrun is what a race
\* leaves: a call that returns from its save loop with the collection above
\* its targetTotal, having inserted, ran while another writer reached the store.
C15_OverrunOnlyByRace ==
  [][\A p \in Procs :
       (/\ req[p].pc \in InCall /\ Acts(p)
        /\ req'[p].outcome = "returned" /\ req'[p].writes > 0
        /\ Cardinality(ActiveAI(req[p].key))' > req'[p].target)
         => ~req'[p].alone]_vars

\* two calls for learn-stories, empty at both first and both second counts,
\* targetTotal 1, candidates of different titles: two active AI documents
C15_Witness ==
  /\ \A p \in Procs :
       /\ req[p].handler = "direct" /\ req[p].key = "learn-stories"
       /\ req[p].target = 1 /\ req[p].existingCount = 0 /\ req[p].latestCount = 0
       /\ req[p].outcome = "returned" /\ req[p].writes = 1
  /\ Cardinality(ActiveAI("learn-stories")) = 2
  /\ \A s, t \in ActiveAI("learn-stories") : s.id # t.id => s.title # t.title

\* the two completion handlers, and what they go on as once they have scheduled
\* the replacement
HookHandlers == {"complete", "childComplete", "scheduled"}

C17_FireAndForget ==
  /\ [](\A p \in Procs :
          req[p].handler = "scheduled"
            => /\ req[p].status = 200
               /\ req[p].message \in {"Story marked as completed",
                                      "Content completed successfully"})
  /\ [][\A p \in Procs :
          (req[p].handler = "scheduled" /\ Acts(p))
            => /\ req'[p].status = req[p].status
               /\ req'[p].message = req[p].message
               /\ req'[p].body = req[p].body]_vars

\* a scheduled call rejected (its count failed) after the success answer
C17_Witness ==
  \E p \in Procs :
    /\ req[p].handler = "scheduled" /\ req[p].outcome = "threw"
    /\ req[p].status = 200 /\ req[p].message = "Content completed successfully"

\* C18: a completion of a story that is not AI-generated, once answered with
\* success, has raised the story's persisted completion counter by one.
C18_CompletionCounted ==
  \A p \in Procs :
    (/\ req[p].handler \in {"complete", "childComplete"}
     /\ req[p].status = 200)
      => \A s \in stories :
           (s.id = req[p].storyId /\ ~s.isAIGenerated) => s.totalCompletions = 1

\* C19: no step removes a document from the collection.
C19_NeverHardDeleted ==
  [][\A s \in stories : \E t \in stories' : t.id = s.id]_vars

\* C20: a retired document is never made active again; an _id is given once,
\* so a replacement has another identity; a play or complete request whose
\* lookup finds the document retired (or gone) answers 404 and writes nothing.
C20_OneWayLifecycle ==
  /\ [](\A p \in Procs :
          req[p].status = 404
            => req[p].pc = "done" /\ req[p].hwrites = 0 /\ req[p].calls = 0)
  /\ [][/\ \A s \in stories : \A t \in stories' :
             (t.id = s.id /\ ~s.isActive) => ~t.isActive
        /\ \A t \in stories' :
             ~InStore(t.id) => t.id = nextId /\ nextId' = nextId + 1
        /\ nextId' >= nextId
        /\ \A p \in Procs :
             (/\ req[p].pc \in {"pFind", "cFind", "ccFind"} /\ Acts(p)
              /\ req'[p].status # 500
              /\ \A s \in stories : s.id = req[p].storyId => ~s.isActive)
               => /\ req'[p].status = 404 /\ req'[p].pc = "done"
                  /\ stories' = stories]_vars

\* a play request on the retired seed was answered 404 while the replacement,
\* a document with another _id, is active in the seed's collection
C20_Witness ==
  \E p \in Procs :
    /\ req[p].handler = "play" /\ req[p].status = 404
    /\ \E s \in stories :
         /\ s.id = req[p].storyId /\ ~s.isActive
         /\ \E t \in ActiveAI(s.generatedForCollection) : t.id # s.id /\ t.by \in Procs

\* no split of the line on any separator gives three segments
Unsplittable(line) ==
  \A j \in 1..Len(Separators) : Len(SplitOn(line, Separators[j], <<>>, <<>>)) < 3

\* C12: for every text and every count N the parser returns, raising nothing,
\* a list of at most N candidates; the list is empty for a text with no
\* bracketed span and no line of three segments.
C12_ParserTotal ==
  (call.fn = "parse" /\ call.pc = "returned")
    => /\ ~call.raised
       /\ Len(call.out) <= call.count
       /\ (/\ call.text.span = "none"
           /\ \A k \in 1..Len(call.text.lines) : Unsplittable(call.text.lines[k]))
            => call.out = <<>>

\* a text whose span JSON.parse rejects and whose two lines both split: one
\* candidate is returned for a count of one
C12_Witness ==
  /\ call.fn = "parse" /\ call.pc = "returned"
  /\ call.text.span = "broken" /\ call.count = 1
  /\ call.text.lines = <<(<<":", ":">>), (<<"|", "|">>)>>
  /\ Len(call.out) = 1

\* C13: neither gateway function raises; the text function returns a string
\* (the generated text, or '' on every failure), the speech function a URL or
\* null.
C13_GatewayContained ==
  /\ (call.fn = "text" /\ call.pc = "returned")
       => ~call.raised /\ call.out.t = "string"
  /\ (call.fn = "speech" /\ call.pc = "returned")
       => ~call.raised /\ call.out \in {NULL, "audio-url"}

\* the awaits of the save loop
InLoop == {"dup", "audio", "create"}

\* C21: a step of the save loop at a candidate that is not the last one leaves
\* the call in its loop, at that candidate's next await or at the next
\* candidate, whether the step failed or not; a failed step goes to the next
\* candidate; saved grows by exactly the document a step inserted, at its end;
\* and the call that leaves the loop returns saved.
C21_PartialSuccess ==
  [][\A p \in Procs :
       (req[p].pc \in InLoop /\ Acts(p)) =>
         LET r == req[p]
             r2 == req'[p]
             inserted == stories' \ stories
         IN /\ r.i < Len(r.toSave)
                 => /\ r2.pc \in InLoop
                    /\ \/ r2.i = r.i /\ r2.pc # "dup"
                       \/ r2.i = r.i + 1 /\ r2.pc = "dup"
            /\ (r.i < Len(r.toSave) /\ failures' > failures)
                 => r2.i = r.i + 1 /\ r2.pc = "dup"
            /\ r2.outcome # "threw"
            /\ r2.pc \notin InLoop => r2.outcome = "returned"
            /\ Cardinality(inserted) <= 1
            /\ r2.saved = IF inserted = {} THEN r.saved
                          ELSE Append(r.saved, (CHOOSE s \in inserted : TRUE).id)
            /\ r2.writes = Len(r2.saved)]_vars

\* a call for two stories whose first candidate met a store failure has
\* returned the one record it inserted: that of its second candidate
C21_Witness ==
  \E p \in Procs :
    /\ req[p].handler = "direct" /\ req[p].outcome = "returned"
    /\ req[p].target = 2 /\ req[p].latestCount = 0 /\ req[p].storeFailed
    /\ Len(req[p].saved) = 1
    /\ \E s \in CreatedBy(p) : s.id = req[p].saved[1] /\ s.title = Owl.title
    /\ \A s \in stories : s.title # Fox.title

\* C22: when its audio lookup succeeded, the audio step of a candidate always
\* leads to the insert of that candidate, whether speech synthesis was not
\* configured, gave a URL or gave none; after an attempted synthesis the
\* candidate carries audioPending exactly when it carries no audioUrl; and the
\* inserted record carries the candidate's audioUrl and audioPending.
C22_AudioNeverBlocks ==
  [][\A p \in Procs :
       (req[p].pc \in {"audio", "create"} /\ Acts(p) /\ failures' = failures) =>
         LET r == req[p]
             r2 == req'[p]
             s == r.toSave[r.i]
         IN /\ r.pc = "audio" =>
                 /\ r2.pc = "create" /\ r2.i = r.i /\ r2.toSave = r.toSave
                 /\ r2.tts > r.tts
                      => /\ env.ELEVENLABS_API_KEY /\ r.hasReq
                         /\ r2.audioPending <=> (r2.audioUrl = NULL)
                 /\ (r2.tts = r.tts /\ FindWithAudio(s.title, s.content) = {})
                      => /\ ~(env.ELEVENLABS_API_KEY /\ r.hasReq)
                         /\ r2.audioUrl = NULL
            /\ r.pc = "create" =>
                 \A d \in stories' \ stories :
                   /\ d.title = s.title
                   /\ d.audioUrl = r.audioUrl /\ d.audioPending = r.audioPending]_vars

\* a record inserted by a GET request's call after a speech synthesis that gave
\* no audio: it is pending and has no URL
C22_Witness ==
  \E p \in Procs :
    /\ req[p].handler = "get" /\ req[p].tts = 1 /\ req[p].writes = 1
    /\ \E d \in CreatedBy(p) : d.audioPending /\ d.audioUrl = NULL

\* an object of the array with a non-empty title and a non-empty content
HasTitleAndContent(obj) == obj.title # "" /\ obj.content # ""

\* C23: the parser raises nothing; when the span between the first '[' and the
\* last ']' is an array with at least one object of non-empty title and content,
\* it returns the first N such objects in array order (and so nothing of the
\* line mode); when the text has no span or its span does not parse, it returns
\* what the line mode gives on the whole text, as it does for every text whose
\* span gave no such object.
C23_TierOrder ==
  (call.fn = "parse" /\ call.pc = "returned") =>
    LET accepted == SelectSeq(call.text.arr, HasTitleAndContent)
        lineMode == parseGeneratedText(AiText(call.text), call.count)
    IN /\ ~call.raised
       /\ (call.text.span = "array" /\ accepted # <<>>)
            => call.out = SubSeq(accepted, 1, Min(call.count, Len(accepted)))
       /\ call.text.span \in {"none", "broken"} => call.out = lineMode
       /\ ~(call.text.span = "array" /\ accepted # <<>>) => call.out = lineMode

\* a text whose array holds an object without a title and then a well-formed
\* one, and whose line splits into three segments: the object alone is returned
C23_Witness ==
  /\ call.fn = "parse" /\ call.pc = "returned"
  /\ call.text.span = "array"
  /\ call.text.arr = <<Obj("", "no title", "body"), Fox>>
  /\ call.text.lines = <<(<<":", ":">>)>>
  /\ call.out = <<Fox>>

\* C24: a candidate's duration is min(20, max(5, d)) when the object's duration
\* is a number d, 0 and the negative numbers included, and 8 when the duration
\* is missing or no number; it lies in 5..20.
C24_DurationAsStated ==
  (call.fn = "candidate" /\ call.pc = "returned") =>
    /\ call.duration.t = "number"
         => call.out.duration = Min(20, Max(5, call.duration.n))
    /\ call.duration.t # "number" => call.out.duration = 8
    /\ call.out.duration \in 5..20

\* C25: for every childAge a candidate's age range is
\* {min: max(2, childAge - 2), max: min(12, childAge + 2)}, and it satisfies
\* 2 <= min <= max <= 12.
C25_AgeRangeAsStated ==
  (call.fn = "candidate" /\ call.pc = "returned") =>
    /\ call.out.ageRange.min = Max(2, call.childAge - 2)
    /\ call.out.ageRange.max = Min(12, call.childAge + 2)
    /\ 2 <= call.out.ageRange.min
    /\ call.out.ageRange.min <= call.out.ageRange.max
    /\ call.out.ageRange.max <= 12

\* C25, for the ages that keep the range in order: for every childAge the age
\* range is {min: max(2, childAge - 2), max: min(12, childAge + 2)}, and for
\* every childAge from 0 to 14 it satisfies 2 <= min <= max <= 12.
C25_AgeRange ==
  (call.fn = "candidate" /\ call.pc = "returned") =>
    /\ call.out.ageRange.min = Max(2, call.childAge - 2)
    /\ call.out.ageRange.max = Min(12, call.childAge + 2)
    /\ call.childAge \in 0..14
         => /\ 2 <= call.out.ageRange.min
            /\ call.out.ageRange.min <= call.out.ageRange.max
            /\ call.out.ageRange.max <= 12

\* childAge 1: the minimum is held at 2
C25_Witness ==
  /\ call.fn = "candidate" /\ call.pc = "returned"
  /\ call.childAge = 1
  /\ call.out.ageRange = [min |-> 2, max |-> 3]

\* C26: a speech-synthesis call that finds a voice in ELEVENLABS_VOICE (from the
\* configuration or from an earlier call) leaves it as it found it, whether the
\* call succeeds or fails.
C26_VoiceWrittenOnce ==
  (call.fn = "speech" /\ call.pc = "returned" /\ call.voice)
    => call.voiceAfter = EnvVoice(call)

\* C27: while the only requests are calls of generateCategoryStories for one
\* collection with one targetTotal, none of which had a write of another fall
\* into it (as is the case when they run one after the other), the collection
\* has at most max(the active AI documents there were at first, targetTotal)
\* active AI documents.
C27_SerialNoOverrun ==
  \A key \in RequestKeys, target \in 0..MaxTarget :
    (\A p \in Procs :
       \/ req[p].handler = "idle"
       \/ /\ req[p].handler = "direct" /\ req[p].alone
          /\ req[p].key = key /\ req[p].target = target)
      => Cardinality(ActiveAI(key))
           <= Max(Cardinality({s \in ActiveAI(key) : s.by = 0}), target)

\* two calls for one story in learn-stories, one after the other: the first
\* found none and inserted one, the second found that one and inserted nothing
C27_Witness ==
  /\ \A p \in Procs :
       /\ req[p].handler = "direct" /\ req[p].outcome = "returned" /\ req[p].alone
       /\ req[p].key = "learn-stories" /\ req[p].target = 1
  /\ req[1].existingCount = 0 /\ req[1].writes = 1
  /\ req[2].existingCount = 1 /\ req[2].writes = 0
  /\ Cardinality(ActiveAI("learn-stories")) = 1

\* C28: of the completion requests for one record, at most one retires it and
\* schedules a replacement call; a completion of a record that another request
\* has retired is not answered as a success.
C28_SingleRetirement ==
  \A p \in Procs, q \in Procs :
    (/\ p # q /\ req[p].handler = "scheduled" /\ req[q].handler \in HookHandlers
     /\ req[q].storyId = req[p].storyId)
      => /\ req[q].handler # "scheduled"
         /\ req[q].pc = "done" => req[q].status # 200

\* C29: as long as no call of generateCategoryStories had a write of another
\* request fall into it, no call has inserted two documents of one title, and no
\* two active documents that calls inserted for one collection have one title.
C29_TitleUniqueness ==
  (\A p \in Procs : req[p].alone)
    => /\ \A p \in Procs : \A s \in CreatedBy(p), t \in CreatedBy(p) :
            s.title = t.title => s = t
       /\ \A s \in stories, t \in stories :
            (/\ s.by \in Procs /\ t.by \in Procs
             /\ s.isActive /\ t.isActive
             /\ s.generatedForCollection = t.generatedForCollection
             /\ s.title = t.title)
              => s = t

\* a call for two stories whose text named Brave Fox twice: the first was
\* inserted, the second found it as its duplicate, and the call returned one
C29_Witness ==
  \E p \in Procs :
    /\ req[p].handler = "direct" /\ req[p].outcome = "returned" /\ req[p].alone
    /\ req[p].target = 2 /\ req[p].existingCount = 0 /\ ~req[p].storeFailed
    /\ req[p].reads = 5 /\ req[p].writes = 1
    /\ \E s \in CreatedBy(p) : s.title = Fox.title /\ s.isActive

\* the scheduled call of slot p has ended with nothing inserted, after a store
\* operation of its own failed or a provider text that was not a well-formed
\* array of new stories (no text at all when the provider is not configured)
YieldedNothing(p) ==
  /\ req[p].handler = "scheduled" /\ req[p].pc = "done"
  /\ req[p].storeFailed \/ (req[p].need >= 1 /\ ~req[p].ample)

====
